---- MODULE Spec2Model ----
(***************************************************************************)
(* Model of the clustering pipeline of 02_cluster_recordings.py:           *)
(* calculate_distance, cluster_sequences and analyze_clusters, and of the  *)
(* triad scan of 01_dissect_sequences.py that produces its input.          *)
(*                                                                         *)
(* A sequence (a Python str) is a TLA+ sequence of one-letter strings.     *)
(* Python's 0-based indices are kept for the members of a cluster; a       *)
(* recording with index i is recordings[i + 1].                            *)
(* avg_distance, a float quotient in the code, is kept as the exact        *)
(* fraction [num, den] the code divides.                                   *)
(***************************************************************************)
EXTENDS Integers, Sequences, FiniteSets, Bags

VARIABLES
    recordings,          \* the list of recordings (all_recordings)
    letter_weight,       \* weights handed to cluster_sequences
    position_weight,
    distance_threshold,  \* threshold of the current call of cluster_sequences
    unclustered,         \* set of indices not yet assigned
    to_check,            \* stack of indices to expand
    current_cluster,     \* list of indices of the cluster being built
    clusters,            \* list of finished clusters
    total_checked,       \* number of calls of calculate_distance in this call
    cluster_data,        \* report list built by analyze_clusters
    pc,                  \* position in the program
    rerun,               \* TRUE once cluster_sequences has been called twice
    prev_threshold,      \* threshold of the earlier call (-1: none)
    prev_clusters,       \* member sets of the clusters the earlier call returned
    dist,                \* results of calculate_distance(a, b) and (b, a)
    checked_pairs,       \* bag of the index pairs given to calculate_distance
                         \* by the current call of cluster_sequences
    sequence,            \* analyze_sequences: the source sequence read from a file
    scan_i,              \* analyze_sequences: the loop variable i
    is_recording,        \* analyze_sequences: inside a start-stop sub-sequence
    current_recording,   \* analyze_sequences: the sub-sequence read so far
    start_position       \* analyze_sequences: where the open recording began

scan_vars == <<sequence, scan_i, is_recording, current_recording, start_position>>

vars == <<recordings, letter_weight, position_weight, distance_threshold,
          unclustered, to_check, current_cluster, clusters, total_checked,
          cluster_data, pc, rerun, prev_threshold, prev_clusters, dist,
          checked_pairs, scan_vars>>

(***************************************************************************)
(* Bounds of the model.                                                    *)
(***************************************************************************)
MaxN == 3          \* longest list of recordings given to cluster_sequences
MaxSeqLen == 2     \* longest sequence given to calculate_distance alone
MaxPos == 2        \* largest start position given to calculate_distance alone
MaxWeight == 2     \* largest weight given to calculate_distance alone
MaxTriads == 4     \* most complete triads in a source given to analyze_sequences

Alphabet == {"A", "C"}
SequenceIds == {"s1"}
\* recordings for the clustering runs: start positions are triad offsets
ClusterPositions == {0, 3}
ClusterSequences == {<<"A">>, <<"C", "A">>}
Thresholds == {2, 8}
Weights == {<<2, 1>>, <<4, 1>>, <<1, 2>>}

\* if total_checked % 100 == 0: print progress
ProgressEvery == 100

\* calculate_distance(..., letter_weight=2, position_weight=1)
DefaultLetterWeight == 2
DefaultPositionWeight == 1

(***************************************************************************)
(* Helpers                                                                 *)
(***************************************************************************)
Abs(x) == IF x < 0 THEN -x ELSE x

Max(a, b) == IF a >= b THEN a ELSE b

Range(s) == {s[i] : i \in 1..Len(s)}

SeqsUpTo(S, n) == UNION {[1..k -> S] : k \in 0..n}

\* all orders in which the elements of a set can be iterated
Orders(S) ==
    {f \in [1..Cardinality(S) -> S] :
        \A i, j \in 1..Cardinality(S) : i # j => f[i] # f[j]}

Entries(ids, positions, seqs) ==
    [sequence_id : ids, start_position : positions, sequence : seqs]

(***************************************************************************)
(* calculate_distance                                                      *)
(***************************************************************************)
\* zip(seq1, seq2): pairs up to the end of the shorter sequence
RECURSIVE zip(_, _)
zip(seq1, seq2) ==
    IF seq1 = <<>> \/ seq2 = <<>>
    THEN <<>>
    ELSE <<<<Head(seq1), Head(seq2)>>>> \o zip(Tail(seq1), Tail(seq2))

Differs(p) == p[1] # p[2]

letter_diff_signed(seq1, seq2) ==
    Len(SelectSeq(zip(seq1, seq2), Differs)) + (Len(seq1) - Len(seq2))

letter_diff(seq1, seq2) ==
    Len(SelectSeq(zip(seq1, seq2), Differs)) + Abs(Len(seq1) - Len(seq2))

position_diff(pos1, pos2) == Abs(pos1 - pos2)

calculate_distance(seq1, seq2, pos1, pos2, lw, pw) ==
    lw * letter_diff(seq1, seq2) + pw * position_diff(pos1, pos2)

\* the call of lines 98-105, on two indices of recordings
RecDistance(i, j) ==
    calculate_distance(recordings[i + 1].sequence, recordings[j + 1].sequence,
                       recordings[i + 1].start_position,
                       recordings[j + 1].start_position,
                       letter_weight, position_weight)

(***************************************************************************)
(* cluster_sequences                                                       *)
(***************************************************************************)
total_pairs == (Len(recordings) * (Len(recordings) - 1)) \div 2

\* entry of cluster_sequences: a first call, or a second call on the same
\* recordings and weights whose result is compared with the first
Call ==
    /\ \/ pc = "main"
       \/ pc = "done" /\ ~rerun
    /\ \E t \in Thresholds : distance_threshold' = t
    /\ rerun' = (pc = "done")
    /\ prev_threshold' = IF pc = "done" THEN distance_threshold ELSE -1
    /\ prev_clusters' = {Range(clusters[k]) : k \in 1..Len(clusters)}
    /\ clusters' = <<>>
    /\ unclustered' = 0..(Len(recordings) - 1)
    /\ total_checked' = 0
    /\ checked_pairs' = EmptyBag
    /\ to_check' = <<>>
    /\ current_cluster' = <<>>
    /\ pc' = "outer"
    /\ UNCHANGED scan_vars
    /\ UNCHANGED <<recordings, letter_weight, position_weight, cluster_data, dist>>

NewCluster_seeded(seed) == <<seed>>

\* current_cluster = []
NewCluster(seed) == <<>>

\* while unclustered: ... to_check = [unclustered.pop()]
Seed ==
    /\ pc = "outer"
    /\ unclustered # {}
    /\ \E s \in unclustered :
          /\ unclustered' = unclustered \ {s}
          /\ to_check' = <<s>>
          /\ current_cluster' = NewCluster(s)
    /\ pc' = "inner"
    /\ UNCHANGED <<scan_vars, checked_pairs>>
    /\ UNCHANGED <<recordings, letter_weight, position_weight, distance_threshold,
                   clusters, total_checked, cluster_data, rerun, prev_threshold,
                   prev_clusters, dist>>

Within_strict(d, threshold) == d < threshold

Within_inverted(d, threshold) == d >= threshold

\* if dist <= distance_threshold
Within(d, threshold) == d <= threshold

to_remove_forward(idx) ==
    {other_idx \in unclustered :
        other_idx > idx /\ Within(RecDistance(idx, other_idx), distance_threshold)}

\* the indices the scan of lines 97-112 puts in to_remove
to_remove(idx) ==
    {other_idx \in unclustered :
        Within(RecDistance(idx, other_idx), distance_threshold)}

PopRest_peek(stack) == stack

\* what to_check.pop() leaves on the stack
PopRest(stack) == SubSeq(stack, 1, Len(stack) - 1)

Remaining_kept(idx) == unclustered

\* unclustered -= to_remove
Remaining(idx) == unclustered \ to_remove(idx)

\* the values of total_checked, counted up from `checked` over `scans` pairs,
\* at which the progress line is printed
ProgressAt(checked, scans) ==
    {m \in (checked + 1)..(checked + scans) : m % ProgressEvery = 0}

\* the first k elements of a scan order
Scanned(order, k) == SubSeq(order, 1, k)

\* one iteration of `while to_check`: the scan either runs to its end, or the
\* progress line divides by a total_pairs of 0 and raises ZeroDivisionError
Expand ==
    /\ pc = "inner"
    /\ to_check # <<>>
    /\ LET idx == to_check[Len(to_check)]
           rest == PopRest(to_check)
           due == ProgressAt(total_checked, Cardinality(unclustered))
           Near(other_idx) == other_idx \in to_remove(idx)
       IN /\ current_cluster' = Append(current_cluster, idx)
          /\ IF due # {} /\ total_pairs = 0
             THEN \E order \in Orders(unclustered) :
                    LET m == CHOOSE x \in due : \A y \in due : x <= y
                        k == m - total_checked
                    IN /\ to_check' = rest \o SelectSeq(Scanned(order, k - 1), Near)
                       /\ total_checked' = m
                       /\ checked_pairs' = checked_pairs
                             (+) SetToBag({{idx, o} : o \in Range(Scanned(order, k))})
                       /\ unclustered' = unclustered
                       /\ pc' = "error"
             ELSE /\ \E order \in Orders(to_remove(idx)) : to_check' = rest \o order
                  /\ total_checked' = total_checked + Cardinality(unclustered)
                  /\ checked_pairs' = checked_pairs
                        (+) SetToBag({{idx, o} : o \in unclustered})
                  /\ unclustered' = Remaining(idx)
                  /\ pc' = pc
    /\ UNCHANGED scan_vars
    /\ UNCHANGED <<recordings, letter_weight, position_weight, distance_threshold,
                   clusters, cluster_data, rerun, prev_threshold,
                   prev_clusters, dist>>

\* clusters.append(current_cluster)
Close ==
    /\ pc = "inner"
    /\ to_check = <<>>
    /\ clusters' = Append(clusters, current_cluster)
    /\ pc' = "outer"
    /\ UNCHANGED <<scan_vars, checked_pairs>>
    /\ UNCHANGED <<recordings, letter_weight, position_weight, distance_threshold,
                   unclustered, to_check, current_cluster, total_checked,
                   cluster_data, rerun, prev_threshold, prev_clusters, dist>>

\* return clusters
Return ==
    /\ pc = "outer"
    /\ unclustered = {}
    /\ pc' = "done"
    /\ UNCHANGED <<scan_vars, checked_pairs>>
    /\ UNCHANGED <<recordings, letter_weight, position_weight, distance_threshold,
                   unclustered, to_check, current_cluster, clusters, total_checked,
                   cluster_data, rerun, prev_threshold, prev_clusters, dist>>

(***************************************************************************)
(* analyze_clusters                                                        *)
(***************************************************************************)
\* the elements of a set of integers in increasing order
RECURSIVE Ascending(_)
Ascending(S) ==
    IF S = {} THEN <<>>
    ELSE LET m == CHOOSE x \in S : \A y \in S : x <= y
         IN <<m>> \o Ascending(S \ {m})

cluster_recordings_sorted(cluster) ==
    LET c == Ascending(Range(cluster))
    IN [k \in 1..Len(c) |-> recordings[c[k] + 1]]

\* [recordings[idx] for idx in cluster]
cluster_recordings(cluster) == [k \in 1..Len(cluster) |-> recordings[cluster[k] + 1]]

ReportDistance_passed(rec1, rec2) ==
    calculate_distance(rec1.sequence, rec2.sequence,
                       rec1.start_position, rec2.start_position,
                       letter_weight, position_weight)

\* calculate_distance(rec1, rec2) as analyze_clusters calls it: no weights given
ReportDistance(rec1, rec2) ==
    calculate_distance(rec1.sequence, rec2.sequence,
                       rec1.start_position, rec2.start_position,
                       DefaultLetterWeight, DefaultPositionWeight)

RECURSIVE SumFrom(_, _, _)
SumFrom(rec1, recs, j) ==
    IF j > Len(recs) THEN 0
    ELSE ReportDistance(rec1, recs[j]) + SumFrom(rec1, recs, j + 1)

\* sum(calculate_distance(rec1, rec2) for rec1, rec2 in combinations(recs, 2))
RECURSIVE SumCombinations(_, _)
SumCombinations(recs, i) ==
    IF i >= Len(recs) THEN 0
    ELSE SumFrom(recs[i], recs, i + 1) + SumCombinations(recs, i + 1)

\* sum(...) / max(1, len(cluster) * (len(cluster) - 1) / 2), as a fraction
avg_distance(cluster) ==
    [num |-> SumCombinations(cluster_recordings(cluster), 1),
     den |-> Max(1, (Len(cluster) * (Len(cluster) - 1)) \div 2)]

\* the dictionary appended for the i-th cluster (lines 147-158)
ClusterReport(i, cluster) ==
    [cluster_id |-> i,
     num_entries |-> Len(cluster),
     avg_distance |-> avg_distance(cluster),
     entries |-> cluster_recordings(cluster)]

RECURSIVE InsertDesc_unstable(_, _)
InsertDesc_unstable(sorted, x) ==
    IF sorted = <<>> THEN <<x>>
    ELSE IF Head(sorted).num_entries > x.num_entries
         THEN <<Head(sorted)>> \o InsertDesc_unstable(Tail(sorted), x)
         ELSE <<x>> \o sorted

\* place x after every element whose num_entries is at least x's
RECURSIVE InsertDesc(_, _)
InsertDesc(sorted, x) ==
    IF sorted = <<>> THEN <<x>>
    ELSE IF Head(sorted).num_entries >= x.num_entries
         THEN <<Head(sorted)>> \o InsertDesc(Tail(sorted), x)
         ELSE <<x>> \o sorted

\* list.sort(key=num_entries, reverse=True): stable, largest first
RECURSIVE SortDesc(_, _)
SortDesc(data, k) ==
    IF k = 0 THEN <<>>
    ELSE InsertDesc(SortDesc(data, k - 1), data[k])

sorted_ranked(data) ==
    LET d == SortDesc(data, Len(data))
    IN [k \in 1..Len(d) |-> [d[k] EXCEPT !.cluster_id = k]]

\* cluster_data.sort(key=lambda x: x['num_entries'], reverse=True)
sorted(data) == SortDesc(data, Len(data))

Analyze ==
    /\ pc = "done"
    /\ cluster_data' =
          sorted([i \in 1..Len(clusters) |-> ClusterReport(i, clusters[i])])
    /\ pc' = "reported"
    /\ UNCHANGED <<scan_vars, checked_pairs>>
    /\ UNCHANGED <<recordings, letter_weight, position_weight, distance_threshold,
                   unclustered, to_check, current_cluster, clusters, total_checked,
                   rerun, prev_threshold, prev_clusters, dist>>

(***************************************************************************)
(* calculate_distance on its own: two entries, both argument orders        *)
(***************************************************************************)
CalcDistance ==
    /\ pc = "distance"
    /\ dist' = <<RecDistance(0, 1), RecDistance(1, 0)>>
    /\ pc' = "measured"
    /\ UNCHANGED <<scan_vars, checked_pairs>>
    /\ UNCHANGED <<recordings, letter_weight, position_weight, distance_threshold,
                   unclustered, to_check, current_cluster, clusters, total_checked,
                   cluster_data, rerun, prev_threshold, prev_clusters>>

None == "None"

\* analyze_sequences is not running
NoScan ==
    /\ sequence = <<>>
    /\ scan_i = 0
    /\ is_recording = FALSE
    /\ current_recording = <<>>
    /\ start_position = None

Idle ==
    /\ distance_threshold = 0
    /\ unclustered = {}
    /\ to_check = <<>>
    /\ current_cluster = <<>>
    /\ clusters = <<>>
    /\ total_checked = 0
    /\ cluster_data = <<>>
    /\ rerun = FALSE
    /\ prev_threshold = -1
    /\ prev_clusters = {}
    /\ dist = <<>>
    /\ checked_pairs = EmptyBag

Init ==
    /\ recordings \in SeqsUpTo(Entries(SequenceIds, ClusterPositions, ClusterSequences), MaxN)
    /\ \E w \in Weights : letter_weight = w[1] /\ position_weight = w[2]
    /\ pc = "main"
    /\ Idle
    /\ NoScan

InitDistance ==
    /\ recordings \in [1..2 -> Entries(SequenceIds, 0..MaxPos, SeqsUpTo(Alphabet, MaxSeqLen))]
    /\ letter_weight \in 0..MaxWeight
    /\ position_weight \in 0..MaxWeight
    /\ pc = "distance"
    /\ Idle
    /\ NoScan

(***************************************************************************)
(* analyze_sequences (01_dissect_sequences.py), for one source sequence    *)
(***************************************************************************)
START_TRIADS == {<<"A", "T", "G">>, <<"A", "T", "A">>}
STOP_TRIADS == {<<"T", "G", "A">>, <<"T", "A", "G">>, <<"T", "A", "A">>}

\* sources: complete triads of every kind, then an incomplete one or nothing
SourceTriads == START_TRIADS \cup STOP_TRIADS \cup {<<"C", "C", "C">>}
SourceTails == {<<>>, <<"A">>, <<"A", "T">>}

RECURSIVE Flatten(_)
Flatten(ts) == IF ts = <<>> THEN <<>> ELSE Head(ts) \o Flatten(Tail(ts))

\* s[from:to], a Python slice: it ends at the end of s
Slice(s, from, to) == SubSeq(s, from + 1, IF to <= Len(s) THEN to ELSE Len(s))

AfterEmit_kept(recording) == recording

\* current_recording = "" once the recording is appended
AfterEmit(recording) == <<>>

\* one iteration of `for i in range(0, len(sequence), 3)`
ScanTriad ==
    /\ pc = "scan"
    /\ scan_i < Len(sequence)
    /\ LET triad == Slice(sequence, scan_i, scan_i + 3)
       IN IF Len(triad) < 3
          THEN UNCHANGED <<recordings, is_recording, current_recording, start_position>>
          ELSE IF is_recording
          THEN IF triad \in STOP_TRIADS
               THEN /\ is_recording' = FALSE
                    /\ recordings' =
                          Append(recordings,
                                 [start_position |-> start_position,
                                  sequence |-> current_recording \o triad])
                    /\ current_recording' = AfterEmit(current_recording \o triad)
                    /\ start_position' = None
               ELSE /\ current_recording' = current_recording \o triad
                    /\ UNCHANGED <<recordings, is_recording, start_position>>
          ELSE IF triad \in START_TRIADS
          THEN /\ is_recording' = TRUE
               /\ start_position' = scan_i
               /\ current_recording' = current_recording \o triad
               /\ UNCHANGED recordings
          ELSE UNCHANGED <<recordings, is_recording, current_recording, start_position>>
    /\ scan_i' = scan_i + 3
    /\ UNCHANGED <<sequence, pc, letter_weight, position_weight, distance_threshold,
                   unclustered, to_check, current_cluster, clusters, total_checked,
                   cluster_data, rerun, prev_threshold, prev_clusters, dist,
                   checked_pairs>>

\* the loop is over: json.dump(recordings, ...)
ScanEnd ==
    /\ pc = "scan"
    /\ scan_i >= Len(sequence)
    /\ pc' = "scanned"
    /\ UNCHANGED <<recordings, scan_vars, letter_weight, position_weight,
                   distance_threshold, unclustered, to_check, current_cluster,
                   clusters, total_checked, cluster_data, rerun, prev_threshold,
                   prev_clusters, dist, checked_pairs>>

InitDissect ==
    /\ \E ts \in SeqsUpTo(SourceTriads, MaxTriads), tail \in SourceTails :
          sequence = Flatten(ts) \o tail
    /\ scan_i = 0
    /\ recordings = <<>>
    /\ is_recording = FALSE
    /\ current_recording = <<>>
    /\ start_position = None
    /\ letter_weight = DefaultLetterWeight
    /\ position_weight = DefaultPositionWeight
    /\ pc = "scan"
    /\ Idle

NextDissect == ScanTriad \/ ScanEnd

SpecDissect == InitDissect /\ [][NextDissect]_vars

Next == Call \/ Seed \/ Expand \/ Close \/ Return \/ Analyze

Spec == Init /\ [][Next]_vars

\* the loops of cluster_sequences keep running until the function returns
FairSpec == Spec /\ WF_vars(Seed \/ Expand \/ Close \/ Return)

SpecDistance == InitDistance /\ [][CalcDistance]_vars

(***************************************************************************)
(* Properties                                                              *)
(***************************************************************************)
Indices == 0..(Len(recordings) - 1)

Returned == pc \in {"done", "reported"}

Members == {Range(clusters[k]) : k \in 1..Len(clusters)}

\* the places <<k, p>> of the returned list that hold index i
Places(i) ==
    UNION {{<<k, p>> : p \in {q \in 1..Len(clusters[k]) : clusters[k][q] = i}} :
              k \in 1..Len(clusters)}

\* C1: the list cluster_sequences returns is a partition of 0..n-1: every
\* index is at exactly one place of exactly one cluster, no cluster is empty
\* and nothing else is in a cluster.
Partition ==
    Returned =>
        /\ \A i \in Indices : Cardinality(Places(i)) = 1
        /\ \A k \in 1..Len(clusters) :
              clusters[k] # <<>> /\ Range(clusters[k]) \subseteq Indices

PartitionWitness ==
    /\ pc = "done"
    /\ Len(recordings) = 3
    /\ Len(clusters) = 2

\* an edge of the similarity graph
Edge(i, j) ==
    \/ RecDistance(i, j) <= distance_threshold
    \/ RecDistance(j, i) <= distance_threshold

RECURSIVE Reachable(_)
Reachable(S) ==
    LET T == S \cup {j \in Indices : \E i \in S : Edge(i, j)}
    IN IF T = S THEN S ELSE Reachable(T)

Components == {Reachable({i}) : i \in Indices}

\* C2: the returned clusters are exactly the connected components of the graph
\* with an edge between i and j whenever their distance is at most the
\* threshold; the empty list gives no cluster.
ConnectedComponents ==
    Returned =>
        /\ Members = Components
        /\ Len(clusters) = Cardinality(Components)
        /\ (recordings = <<>> => clusters = <<>>)

\* three entries in one cluster although two of them are further apart than
\* the threshold
ConnectedComponentsWitness ==
    /\ pc = "done"
    /\ Len(recordings) = 3
    /\ Len(clusters) = 1
    /\ \E i, j \in Indices : RecDistance(i, j) > distance_threshold

\* C3: a second run on the same recordings, weights and threshold returns the
\* same member sets as the first, whatever the pop orders of the two runs.
SameMembership ==
    (pc = "done" /\ rerun /\ prev_threshold = distance_threshold) =>
        Members = prev_clusters

\* the second run seeded its first cluster with another index than the
\* smallest one, and found two clusters
SameMembershipWitness ==
    /\ pc = "done" /\ rerun /\ prev_threshold = distance_threshold
    /\ Len(recordings) = 3
    /\ Len(clusters) = 2
    /\ clusters[1][1] = 2

\* C4: with a threshold at least as large as that of the earlier run, the run
\* returns no more clusters and every earlier cluster lies within one of its
\* clusters.
ThresholdMonotone ==
    (pc = "done" /\ rerun /\ prev_threshold <= distance_threshold) =>
        /\ Len(clusters) <= Cardinality(prev_clusters)
        /\ \A P \in prev_clusters : \E M \in Members : P \subseteq M

\* the larger threshold merged clusters of the smaller one
ThresholdMonotoneWitness ==
    /\ pc = "done" /\ rerun /\ prev_threshold < distance_threshold
    /\ Cardinality(prev_clusters) = 3
    /\ Len(clusters) = 1

\* the cluster a report describes: cluster_id is its place in clusters
ClusterOf(r) == clusters[r.cluster_id]

Reports == {cluster_data[k] : k \in 1..Len(cluster_data)}

\* C5 as claimed: the k-th report of the output list has cluster_id = k.
ClusterIdIsRank ==
    pc = "reported" =>
        \A k \in 1..Len(cluster_data) : cluster_data[k].cluster_id = k

\* C5, amended: cluster_id is the 1-based place of the cluster in the list
\* cluster_sequences returned, given before the sort: the ids of the output
\* list are a permutation of 1..len(clusters) and the report with id i holds
\* the recordings of the i-th returned cluster.
ClusterIdIsDiscoveryPlace ==
    pc = "reported" =>
        /\ Len(cluster_data) = Len(clusters)
        /\ {cluster_data[k].cluster_id : k \in 1..Len(cluster_data)}
              = 1..Len(clusters)
        /\ \A r \in Reports :
              Range(r.entries) = {recordings[i + 1] : i \in Range(ClusterOf(r))}

\* the larger cluster was found second: it is first in the output with id 2
ClusterIdWitness ==
    /\ pc = "reported"
    /\ Len(cluster_data) = 2
    /\ cluster_data[1].cluster_id = 2
    /\ cluster_data[1].entries # cluster_data[2].entries

\* C6: the output list is ordered by num_entries descending, reports with
\* equal num_entries keep the order of discovery, and num_entries is the
\* number of members of the cluster.
SortedStable ==
    pc = "reported" =>
        /\ \A k, l \in 1..Len(cluster_data) :
              k < l =>
                 /\ cluster_data[k].num_entries >= cluster_data[l].num_entries
                 /\ cluster_data[k].num_entries = cluster_data[l].num_entries
                       => cluster_data[k].cluster_id < cluster_data[l].cluster_id
        /\ \A r \in Reports :
              r.num_entries = Cardinality(Range(ClusterOf(r)))

\* three clusters of equal size, reported in the order they were found
SortedStableWitness ==
    /\ pc = "reported"
    /\ Len(cluster_data) = 3
    /\ cluster_data[1].num_entries = cluster_data[3].num_entries
    /\ cluster_data[1].entries # cluster_data[2].entries
    /\ cluster_data[2].cluster_id = 2

Min(a, b) == IF a <= b THEN a ELSE b

\* lw * (mismatches over the shorter length + |len1 - len2|) + pw * |pos1 - pos2|
WeightedDistance(a, b, lw, pw) ==
    lw * (Cardinality({i \in 1..Min(Len(a.sequence), Len(b.sequence)) :
                          a.sequence[i] # b.sequence[i]})
          + Abs(Len(a.sequence) - Len(b.sequence)))
    + pw * Abs(a.start_position - b.start_position)

Pairs(S) == {p \in SUBSET S : Cardinality(p) = 2}

\* sum of the weighted distance over a set of unordered pairs of indices
RECURSIVE SumOverPairs(_, _, _)
SumOverPairs(P, lw, pw) ==
    IF P = {} THEN 0
    ELSE LET p == CHOOSE q \in P : TRUE
             x == CHOOSE i \in p : TRUE
             y == CHOOSE j \in p : j # x
         IN WeightedDistance(recordings[x + 1], recordings[y + 1], lw, pw)
            + SumOverPairs(P \ {p}, lw, pw)

\* avg_distance of every report is the mean over the unordered pairs of its
\* cluster of the distance with weights lw and pw, and 0 without pairs
AvgIsMeanWith(lw, pw) ==
    \A r \in Reports :
        LET P == Pairs(Range(ClusterOf(r)))
        IN /\ r.avg_distance.den > 0
           /\ IF P = {}
              THEN r.avg_distance.num = 0
              ELSE r.avg_distance.num * Cardinality(P)
                      = SumOverPairs(P, lw, pw) * r.avg_distance.den

\* C7 as claimed: avg_distance is the mean pair distance with letter_weight 4
\* and position_weight 1.
AvgDistanceWeights41 == pc = "reported" => AvgIsMeanWith(4, 1)

\* C7, amended: avg_distance is the mean pair distance with the defaults of
\* calculate_distance, letter_weight 2 and position_weight 1, whatever
\* weights cluster_sequences was given; 0 for a cluster of size 1.
AvgDistanceDefaultWeights == pc = "reported" => AvgIsMeanWith(2, 1)

\* clustered with letter_weight 4: a cluster of three whose sequences differ
\* and a run with a singleton
AvgDistanceWitness ==
    /\ pc = "reported"
    /\ letter_weight = 4
    /\ \E r \in Reports : r.num_entries = 3 /\ r.avg_distance.num > 6
    /\ \E r \in Reports : r.avg_distance.den = 3

\* C8: calculate_distance gives the same value for (a, b) and (b, a), namely
\* lw * (mismatches over the shorter length + length difference)
\* + pw * position difference.
DistanceSymmetric ==
    pc = "measured" =>
        /\ dist[1] = dist[2]
        /\ dist[1] = WeightedDistance(recordings[1], recordings[2],
                                      letter_weight, position_weight)

\* sequences of different lengths with a mismatch, different positions
DistanceSymmetricWitness ==
    /\ pc = "measured"
    /\ Len(recordings[1].sequence) = 1
    /\ Len(recordings[2].sequence) = 2
    /\ recordings[1].sequence[1] # recordings[2].sequence[1]
    /\ recordings[1].start_position > recordings[2].start_position
    /\ letter_weight = 2 /\ position_weight = 1
    /\ dist = <<5, 5>>

\* C9: every outer iteration takes an index out of unclustered, every inner
\* iteration moves the top of to_check to the end of the current cluster, no
\* index comes back to unclustered during a call, every call returns, and on
\* return every index is in a cluster and nothing is left to do.
Terminates ==
    /\ [][(pc = "outer" /\ pc' = "inner") =>
             (unclustered' \subseteq unclustered /\ unclustered' # unclustered)]_vars
    /\ [][(pc = "inner" /\ to_check # <<>>) =>
             /\ current_cluster' = Append(current_cluster, to_check[Len(to_check)])
             /\ Len(to_check') >= Len(to_check) - 1
             /\ SubSeq(to_check', 1, Len(to_check) - 1)
                   = SubSeq(to_check, 1, Len(to_check) - 1)
             /\ to_check[Len(to_check)] \notin Range(to_check')]_vars
    /\ [][(pc \in {"outer", "inner"}) => unclustered' \subseteq unclustered]_vars
    /\ [](pc = "done" =>
             /\ unclustered = {} /\ to_check = <<>>
             /\ UNION Members = Indices)
    /\ (pc = "outer") ~> (pc = "done")

TerminatesWitness ==
    /\ pc = "done"
    /\ Len(recordings) = 3
    /\ total_checked = 3

\* C10 as claimed: the entries of every report are the recordings of its
\* cluster in input order, smaller index first.
EntriesInInputOrder ==
    pc = "reported" =>
        \A r \in Reports :
            LET c == Ascending(Range(ClusterOf(r)))
            IN r.entries = [k \in 1..Len(c) |-> recordings[c[k] + 1]]

\* C10, amended: the entries of every report are the recordings of its
\* cluster in the order cluster_sequences put the members in the cluster
\* (the seed first, then the order of expansion).
EntriesInTraversalOrder ==
    pc = "reported" =>
        \A r \in Reports :
            /\ Len(r.entries) = Len(ClusterOf(r))
            /\ \A k \in 1..Len(r.entries) :
                  r.entries[k] = recordings[ClusterOf(r)[k] + 1]

\* a cluster whose members were found in the order 0, 2, 1
EntriesOrderWitness ==
    /\ pc = "reported"
    /\ Len(cluster_data) = 1
    /\ clusters[1] = <<0, 2, 1>>
    /\ recordings[2] # recordings[3]

\* the t-th in-frame triad of a recorded sequence
TriadAt(sq, t) == SubSeq(sq, 3 * t - 2, 3 * t)

\* where a recorded entry ends in the source
EndOf(e) == e.start_position + Len(e.sequence)

\* C11: every entry analyze_sequences records starts at a non-negative
\* multiple of 3, is the non-empty stretch of the source that begins there,
\* begins with a start triad and ends with the first in-frame stop triad after
\* it; entries do not overlap, and a recording still open when the source ends
\* is not among them.
RecordedEntriesContract ==
    pc \in {"scan", "scanned"} =>
        /\ \A k \in 1..Len(recordings) :
              LET e == recordings[k]
                  n == Len(e.sequence)
              IN /\ e.start_position \in 0..Len(sequence)
                 /\ e.start_position % 3 = 0
                 /\ n > 0 /\ n % 3 = 0
                 /\ EndOf(e) <= Len(sequence)
                 /\ e.sequence = SubSeq(sequence, e.start_position + 1, EndOf(e))
                 /\ TriadAt(e.sequence, 1) \in START_TRIADS
                 /\ TriadAt(e.sequence, n \div 3) \in STOP_TRIADS
                 /\ \A t \in 2..((n \div 3) - 1) :
                       TriadAt(e.sequence, t) \notin STOP_TRIADS
        /\ \A k, l \in 1..Len(recordings) :
              k < l => EndOf(recordings[k]) <= recordings[l].start_position
        /\ (pc = "scanned" /\ is_recording) =>
              \A k \in 1..Len(recordings) :
                  EndOf(recordings[k]) <= start_position

\* one entry recorded at offset 3, then a recording that the end of the
\* source, an incomplete triad, leaves open
RecordedEntriesWitness ==
    /\ pc = "scanned"
    /\ Len(recordings) = 1
    /\ recordings[1].start_position = 3
    /\ is_recording
    /\ start_position = 9
    /\ Len(sequence) = 14

\* C12: during a call of cluster_sequences every pair given to
\* calculate_distance is a pair of two different indices and is given once,
\* an index in to_check or in a cluster is not in unclustered, total_checked
\* counts these pairs and never exceeds n * (n - 1) / 2, and the progress
\* line never divides by a total_pairs of 0.
PairsCheckedOnce ==
    pc \in {"outer", "inner", "done", "reported", "error"} =>
        /\ \A p \in BagToSet(checked_pairs) :
              /\ Cardinality(p) = 2
              /\ p \subseteq Indices
              /\ CopiesIn(p, checked_pairs) = 1
        /\ unclustered \cap (Range(to_check) \cup Range(current_cluster)
                               \cup UNION Members) = {}
        /\ total_checked = BagCardinality(checked_pairs)
        /\ 2 * total_checked <= Len(recordings) * (Len(recordings) - 1)
        /\ pc # "error"

\* a call on three entries that returned one cluster after two of the
\* three pairs
PairsCheckedOnceWitness ==
    /\ pc = "done"
    /\ Len(recordings) = 3
    /\ total_checked = 2
    /\ Len(clusters) = 1

====
